---- MODULE Spec2Model ----
(***************************************************************************)
(* Model of the image set of the Multi-Image Viewer: ImageHandler          *)
(* (src/image_handler.py).  The state is the handler's four fields; every  *)
(* public method is one action.  The filesystem and the image codec are    *)
(* the environment: what a path holds is an input of the call that reads   *)
(* it.  The variable `call` records the last call made on the handler      *)
(* (method, arguments, what the environment supplied, return value) so     *)
(* that the contract of each method can be stated over states.             *)
(*                                                                         *)
(* Spec is the handler under any caller.  ViewSpec is the handler under    *)
(* its one real caller, ImageViewer (src/image_viewer.py): the widgets,    *)
(* the pending `after` timers of the Tk event loop and the size of the     *)
(* image frame are state, and every event handler is one action.           *)
(***************************************************************************)
EXTENDS Integers, Sequences, FiniteSets, TLC

VARIABLES images, current_index, current_image, original_image, call,
          widgets,        \* the texts, the picture and the button states shown
          timers,         \* root.after calls not fired yet, oldest first
          resize_after,   \* _resize_after: {} while the attribute is unset
          frame,          \* winfo_width, winfo_height of image_frame
          history         \* what has happened since the last resize / failure:
                          \*   quiet: ms since the last <Configure>, up to 250
                          \*   burst: resize events of the running burst, up to 2
                          \*   resize_renders: debounced renders since that event
                          \*   reported: a render returned None, no user action since
                          \*   old_timers: the timers that were pending then

viewer_vars == <<widgets, timers, resize_after, frame, history>>

vars == <<images, current_index, current_image, original_image, call,
          widgets, timers, resize_after, frame, history>>

----------------------------------------------------------------------------
(* Bounds of the model. *)

MaxBatch == 2        \* longest list of candidate paths handed to load_images

(* The sizes images have and the target sizes the caller asks for.  They   *)
(* hold an image that fits, images that must shrink, one whose scaled      *)
(* height is below 1 (2 x 1 into 1 x 1), and a pair for which the float    *)
(* product is not the exact one: 22 * (15 / 22) < 15 in binary64.          *)
Sizes == { <<1, 1>>, <<2, 1>>, <<3, 2>>, <<22, 2>> }
Targets == { <<1, 1>>, <<2, 2>>, <<15, 2>> }

(* Paths are sequences of characters; "/" is the separator. *)
PathSet == { <<"a">>, <<"d", "/", "b">> }

RECURSIVE SeqsUpTo(_, _)
SeqsUpTo(S, n) ==
    IF n = 0 THEN { <<>> }
    ELSE LET shorter == SeqsUpTo(S, n - 1)
         IN  shorter \cup { Append(s, x) : s \in shorter, x \in S }

Batches == SeqsUpTo(PathSet, MaxBatch)

Range(s) == { s[i] : i \in 1..Len(s) }

(* Python's None, and an absent argument. *)
None == <<>>

----------------------------------------------------------------------------
(* binary64 arithmetic, as far as load_current_image uses it: the true     *)
(* division of two positive ints, the product of an int and a float, min,  *)
(* the comparison with 1 and int().  A positive float is [e, m]: m is the  *)
(* 53-bit significand, most significant bit first (m[1] = 1), and the      *)
(* value is m[1].m[2]...m[53] * 2^e.  Rounding is to nearest, ties to even.*)
(* The ints involved stay below 2^14, which keeps every intermediate       *)
(* product of the long division and multiplication inside 32 bits.         *)

Precision == 53

RECURSIVE Pow2(_)
Pow2(n) == IF n = 0 THEN 1 ELSE 2 * Pow2(n - 1)

(* 2^j mod md, by repeated squaring. *)
RECURSIVE Pow2Mod(_, _)
Pow2Mod(j, md) ==
    IF j = 0 THEN 1 % md
    ELSE LET half == Pow2Mod(j \div 2, md)
         IN  IF j % 2 = 0 THEN (half * half) % md ELSE (2 * half * half) % md

(* Largest k >= 0 with den * 2^k <= num (for num >= den). *)
RECURSIVE ExpUp(_, _)
ExpUp(num, den) == IF 2 * den <= num THEN 1 + ExpUp(num, 2 * den) ELSE 0

(* Smallest j >= 0 with num * 2^j >= den. *)
RECURSIVE ExpDown(_, _)
ExpDown(num, den) == IF num >= den THEN 0 ELSE 1 + ExpDown(2 * num, den)

(* sig + 1 on a bit string; one bit longer when every bit was 1. *)
IncBits(sig) ==
    LET zeros == { i \in 1..Len(sig) : sig[i] = 0 }
    IN  IF zeros = {} THEN <<1>> \o [i \in 1..Len(sig) |-> 0]
        ELSE LET z == CHOOSE i \in zeros : \A j \in zeros : j <= i
             IN  [i \in 1..Len(sig) |->
                    IF i < z THEN sig[i] ELSE IF i = z THEN 1 ELSE 0]

(* The float of exponent ex whose exact significand is sig followed by     *)
(* more: away says whether rounding goes away from zero.                   *)
Rounded(ex, sig, away) ==
    IF ~away THEN [e |-> ex, m |-> sig]
    ELSE LET inc == IncBits(sig)
         IN  IF Len(inc) > Precision
             THEN [e |-> ex + 1, m |-> SubSeq(inc, 1, Precision)]
             ELSE [e |-> ex, m |-> inc]

(* a / b for ints a, b >= 1: long division of n by d with 1 <= n/d < 2.    *)
(* Quotient bit i is floor(n * 2^(i-1) / d) mod 2, and what is left after  *)
(* 53 bits is (n * 2^53) mod 2d, to be compared with d (half a unit).      *)
FloatDiv(a, b) ==
    LET sh == IF a >= b THEN ExpUp(a, b) ELSE 0 - ExpDown(a, b)
        n == IF sh >= 0 THEN a ELSE a * Pow2(0 - sh)
        d == IF sh >= 0 THEN b * Pow2(sh) ELSE b
        quo == [i \in 1..Precision |->
                   ((n * Pow2Mod(i - 1, 2 * d)) % (2 * d)) \div d]
        left == (n * Pow2Mod(Precision, 2 * d)) % (2 * d)
    IN  Rounded(sh, quo, left > d \/ (left = d /\ quo[Precision] = 1))

RECURSIVE BitsToInt(_)
BitsToInt(bs) ==
    IF bs = <<>> THEN 0
    ELSE 2 * BitsToInt(SubSeq(bs, 1, Len(bs) - 1)) + bs[Len(bs)]

(* The significand as five 13-bit limbs, least significant first. *)
LimbBits == 13
LimbBase == 8192
Limbs(sig) ==
    [i \in 1..5 |->
        LET hi == Precision - LimbBits * (i - 1)
            lo == IF hi - LimbBits + 1 < 1 THEN 1 ELSE hi - LimbBits + 1
        IN  BitsToInt(SubSeq(sig, lo, hi))]

(* limbs * k: schoolbook with carry; the last limb is the final carry. *)
RECURSIVE MulLimbs(_, _, _)
MulLimbs(ls, k, carry) ==
    IF ls = <<>> THEN <<carry>>
    ELSE LET t == k * Head(ls) + carry
         IN  <<t % LimbBase>> \o MulLimbs(Tail(ls), k, t \div LimbBase)

(* Bit j (weight 2^j) of a number given as limbs. *)
LimbBit(ls, j) ==
    IF j < 0 THEN 0
    ELSE (ls[(j \div LimbBits) + 1] \div Pow2(j % LimbBits)) % 2

(* k * x for an int k >= 1 and a float x: the exact product, rounded. *)
FloatMulInt(k, x) ==
    LET prod == MulLimbs(Limbs(x.m), k, 0)
        ones == { j \in 0..(LimbBits * Len(prod) - 1) : LimbBit(prod, j) = 1 }
        top == CHOOSE j \in ones : \A i \in ones : i <= j
        head == [i \in 1..Precision |-> LimbBit(prod, top - (i - 1))]
        half == LimbBit(prod, top - Precision)
        sticky == \E j \in ones : j < top - Precision
    IN  Rounded(x.e + (top - (Precision - 1)), head,
                half = 1 /\ (sticky \/ head[Precision] = 1))

(* int(x): truncation. *)
FloatToInt(x) ==
    IF x.e < 0 THEN 0 ELSE BitsToInt(SubSeq(x.m, 1, x.e + 1))

BitsLess(p, q) ==
    \E i \in 1..Len(p) : p[i] < q[i] /\ \A j \in 1..(i - 1) : p[j] = q[j]

FloatLess(u, v) == u.e < v.e \/ (u.e = v.e /\ BitsLess(u.m, v.m))

(* min(x, y) of Python: y only when y < x. *)
FloatMin(x, y) == IF FloatLess(y, x) THEN y ELSE x

(* x < 1 *)
FloatBelowOne(x) == x.e < 0

----------------------------------------------------------------------------
(* The environment: what a path holds when a call reads it.                *)
(*   missing       no such file                                            *)
(*   unopenable    a file Image.open rejects (no image header)             *)
(*   unverifiable  opens, but verify() and the pixel decode raise          *)
(*   undecodable   opens and verifies, but the pixel decode raises         *)
(*   image         a sound image                                           *)

FileKinds == { "missing", "unopenable", "unverifiable", "undecodable", "image" }

os_path_exists(kind) == kind # "missing"
Image_open(kind) == kind \notin { "missing", "unopenable" }
Image_verify(kind) == kind \in { "undecodable", "image" }
Image_copy(kind) == kind = "image"

(* Image.resize raises ValueError unless both dimensions are at least 1. *)
Image_resize(new_size) == new_size[1] >= 1 /\ new_size[2] >= 1

(* What load_current_image may find at the current path. *)
Files ==
    { <<kind, None>> : kind \in FileKinds \ { "image" } }
        \cup { <<"image", size>> : size \in Sizes }

(* basename that forgets to cut the directory. *)
basename_whole(path) == path

(* os.path.basename: what follows the last separator. *)
basename(path) ==
    LET seps == { i \in 1..Len(path) : path[i] = "/" }
        cut == IF seps = {} THEN 0 ELSE CHOOSE i \in seps : \A j \in seps : j <= i
    IN  SubSeq(path, cut + 1, Len(path))

----------------------------------------------------------------------------
(* ImageHandler *)

Called(name, arg, env, ret) ==
    [name |-> name, arg |-> arg, env |-> env, ret |-> ret]

(* A label text: the fixed words and the values formatted into them. *)
Text(words, name, n, m) == [text |-> words, name |-> name, n |-> n, m |-> m]

(* image_label: its text and the bitmap it shows (None for image=""). *)
Picture(words, image) == [text |-> words, image |-> image]

(* The widgets as setup_ui leaves them. *)
setup_ui ==
    [ info_label    |-> Text("No images loaded. Click 'Open Images' to get started.",
                             <<>>, 0, 0),
      image_label   |-> Picture("No image to display", None),
      counter_label |-> Text("", <<>>, 0, 0),
      status_label  |-> Text("Ready", <<>>, 0, 0),
      prev_button   |-> "disabled",
      next_button   |-> "disabled" ]

(* winfo_width and winfo_height of a window that is not mapped yet. *)
Unmapped == <<1, 1>>

Init ==
    /\ images = <<>>
    /\ current_index = 0
    /\ current_image = None
    /\ original_image = None
    /\ call = Called("__init__", None, None, None)
    /\ widgets = setup_ui
    /\ timers = <<>>
    /\ resize_after = {}
    /\ frame = Unmapped
    /\ history = [quiet |-> 0, burst |-> 0, resize_renders |-> 0,
                  reported |-> FALSE, old_timers |-> {}]

(* is_valid_image without the verify() of line 57. *)
is_valid_image_unverified(fs, file_path) ==
    IF ~os_path_exists(fs[file_path]) THEN FALSE
    ELSE IF ~Image_open(fs[file_path]) THEN FALSE
    ELSE TRUE

is_valid_image(fs, file_path) ==
    IF ~os_path_exists(fs[file_path]) THEN FALSE
    ELSE IF ~Image_open(fs[file_path]) THEN FALSE
    ELSE IF ~Image_verify(fs[file_path]) THEN FALSE
    ELSE TRUE

(* The loop of load_images inserting at the front instead of appending. *)
RECURSIVE valid_images_reversed(_, _)
valid_images_reversed(fs, paths) ==
    IF paths = <<>> THEN <<>>
    ELSE valid_images_reversed(fs, Tail(paths))
            \o (IF is_valid_image(fs, Head(paths)) THEN <<Head(paths)>> ELSE <<>>)

(* The loop of load_images: the candidates that validate, in order. *)
RECURSIVE valid_images(_, _)
valid_images(fs, paths) ==
    IF paths = <<>> THEN <<>>
    ELSE (IF is_valid_image(fs, Head(paths)) THEN <<Head(paths)>> ELSE <<>>)
            \o valid_images(fs, Tail(paths))

(* load_images without line 37: the cursor of the previous set is kept. *)
load_images_keeps_cursor(file_paths, fs) ==
    LET valid == valid_images(fs, file_paths)
        seen == { p \in Range(file_paths) : is_valid_image(fs, p) }
    IN  /\ IF valid # <<>>
           THEN /\ images' = valid
                /\ call' = Called("load_images", file_paths, seen, TRUE)
           ELSE /\ UNCHANGED images
                /\ call' = Called("load_images", file_paths, seen, FALSE)
        /\ UNCHANGED <<current_index, current_image, original_image>>

(* load_images without the test of line 35: an empty result replaces too. *)
load_images_clears(file_paths, fs) ==
    LET valid == valid_images(fs, file_paths)
        seen == { p \in Range(file_paths) : is_valid_image(fs, p) }
    IN  /\ images' = valid
        /\ current_index' = 0
        /\ call' = Called("load_images", file_paths, seen, valid # <<>>)
        /\ UNCHANGED <<current_image, original_image>>

load_images(file_paths, fs) ==
    LET valid == valid_images(fs, file_paths)
        seen == { p \in Range(file_paths) : is_valid_image(fs, p) }
    IN  /\ IF valid # <<>>
           THEN /\ images' = valid
                /\ current_index' = 0
                /\ call' = Called("load_images", file_paths, seen, TRUE)
           ELSE /\ UNCHANGED <<images, current_index>>
                /\ call' = Called("load_images", file_paths, seen, FALSE)
        /\ UNCHANGED <<current_image, original_image>>

get_current_image_path ==
    IF images = <<>> \/ current_index >= Len(images) THEN None
    ELSE images[current_index + 1]

get_current_image_info ==
    IF images = <<>> THEN << <<>>, 0, 0 >>
    ELSE << basename(images[current_index + 1]), Len(images), current_index + 1 >>

(* Lines 107-115: the size of the bitmap to build, None when resize raises. *)
scaled_size(img_size, target) ==
    LET ratio == FloatMin(FloatDiv(target[1], img_size[1]),
                          FloatDiv(target[2], img_size[2]))
        new_size == << FloatToInt(FloatMulInt(img_size[1], ratio)),
                       FloatToInt(FloatMulInt(img_size[2], ratio)) >>
    IN  IF FloatBelowOne(ratio)
        THEN IF Image_resize(new_size) THEN new_size ELSE None
        ELSE img_size

(* scaled_size over the sizes and targets of the model, tabulated. *)
ScaledSizes == { << s, t, scaled_size(s, t) >> : s \in Sizes, t \in Targets }

Scaled(img_size, target) ==
    (CHOOSE row \in ScaledSizes : row[1] = img_size /\ row[2] = target)[3]

(* load_current_image whose except branch also rewinds the cursor. *)
load_current_image_rewinds(target, file) ==
    IF images = <<>> \/ current_index >= Len(images)
    THEN /\ call' = Called("load_current_image", target, None, None)
         /\ UNCHANGED <<images, current_index, current_image, original_image>>
    ELSE IF ~Image_open(file[1]) \/ ~Image_copy(file[1])
    THEN /\ call' = Called("load_current_image", target, file, None)
         /\ current_index' = 0
         /\ UNCHANGED <<images, current_image, original_image>>
    ELSE LET resized == Scaled(file[2], target)
         IN  /\ original_image' = file[2]
             /\ IF resized = None
                THEN UNCHANGED current_image
                ELSE current_image' = resized
             /\ call' = Called("load_current_image", target, file, resized)
             /\ UNCHANGED <<images, current_index>>

load_current_image(target, file) ==
    IF images = <<>> \/ current_index >= Len(images)
    THEN /\ call' = Called("load_current_image", target, None, None)
         /\ UNCHANGED <<images, current_index, current_image, original_image>>
    ELSE IF ~Image_open(file[1]) \/ ~Image_copy(file[1])
    THEN /\ call' = Called("load_current_image", target, file, None)
         /\ UNCHANGED <<images, current_index, current_image, original_image>>
    ELSE LET resized == Scaled(file[2], target)
         IN  /\ original_image' = file[2]
             /\ IF resized = None
                THEN UNCHANGED current_image
                ELSE current_image' = resized
             /\ call' = Called("load_current_image", target, file, resized)
             /\ UNCHANGED <<images, current_index>>

(* next_image that wraps to the first image at the end. *)
next_image_wraps ==
    IF images = <<>>
    THEN /\ call' = Called("next_image", None, None, FALSE)
         /\ UNCHANGED <<images, current_index, current_image, original_image>>
    ELSE /\ current_index' = (current_index + 1) % Len(images)
         /\ call' = Called("next_image", None, None, TRUE)
         /\ UNCHANGED <<images, current_image, original_image>>

next_image ==
    IF images = <<>>
    THEN /\ call' = Called("next_image", None, None, FALSE)
         /\ UNCHANGED <<images, current_index, current_image, original_image>>
    ELSE IF current_index < Len(images) - 1
    THEN /\ current_index' = current_index + 1
         /\ call' = Called("next_image", None, None, TRUE)
         /\ UNCHANGED <<images, current_image, original_image>>
    ELSE /\ call' = Called("next_image", None, None, FALSE)
         /\ UNCHANGED <<images, current_index, current_image, original_image>>

(* previous_image whose test is current_index > 1. *)
previous_image_strict ==
    IF images = <<>>
    THEN /\ call' = Called("previous_image", None, None, FALSE)
         /\ UNCHANGED <<images, current_index, current_image, original_image>>
    ELSE IF current_index > 1
    THEN /\ current_index' = current_index - 1
         /\ call' = Called("previous_image", None, None, TRUE)
         /\ UNCHANGED <<images, current_image, original_image>>
    ELSE /\ call' = Called("previous_image", None, None, FALSE)
         /\ UNCHANGED <<images, current_index, current_image, original_image>>

previous_image ==
    IF images = <<>>
    THEN /\ call' = Called("previous_image", None, None, FALSE)
         /\ UNCHANGED <<images, current_index, current_image, original_image>>
    ELSE IF current_index > 0
    THEN /\ current_index' = current_index - 1
         /\ call' = Called("previous_image", None, None, TRUE)
         /\ UNCHANGED <<images, current_image, original_image>>
    ELSE /\ call' = Called("previous_image", None, None, FALSE)
         /\ UNCHANGED <<images, current_index, current_image, original_image>>

has_images == Len(images) > 0

(* has_next without the - 1. *)
has_next_inclusive == current_index < Len(images)

has_next == current_index < Len(images) - 1

has_previous == current_index > 0

get_original_size == IF original_image # None THEN original_image ELSE None

(* next_image and previous_image as functions of the fields they read:    *)
(* the return value and the cursor afterwards.                             *)
advance(imgs, idx) ==
    IF imgs = <<>> THEN [ret |-> FALSE, index |-> idx]
    ELSE IF idx < Len(imgs) - 1 THEN [ret |-> TRUE, index |-> idx + 1]
    ELSE [ret |-> FALSE, index |-> idx]

retreat(imgs, idx) ==
    IF imgs = <<>> THEN [ret |-> FALSE, index |-> idx]
    ELSE IF idx > 0 THEN [ret |-> TRUE, index |-> idx - 1]
    ELSE [ret |-> FALSE, index |-> idx]

(* A query: the state stays, the call and its result are recorded. *)
Query(name, ret) ==
    /\ call' = Called(name, None, None, ret)
    /\ UNCHANGED <<images, current_index, current_image, original_image>>

----------------------------------------------------------------------------
(* Any caller: every method, any time, with any arguments of the model. *)

Load ==
    /\ \E file_paths \in Batches :
            \E fs \in [Range(file_paths) -> FileKinds] : load_images(file_paths, fs)
    /\ UNCHANGED viewer_vars

Render ==
    /\ \E target \in Targets : \E file \in Files : load_current_image(target, file)
    /\ UNCHANGED viewer_vars

Validate ==
    /\ \E file_path \in PathSet : \E kind \in FileKinds :
          /\ call' = Called("is_valid_image", file_path, kind,
                             is_valid_image([p \in {file_path} |-> kind], file_path))
          /\ UNCHANGED <<images, current_index, current_image, original_image>>
    /\ UNCHANGED viewer_vars

Advance == next_image /\ UNCHANGED viewer_vars

Retreat == previous_image /\ UNCHANGED viewer_vars

AskPath ==
    Query("get_current_image_path", get_current_image_path) /\ UNCHANGED viewer_vars

AskInfo ==
    Query("get_current_image_info", get_current_image_info) /\ UNCHANGED viewer_vars

AskHasImages == Query("has_images", has_images) /\ UNCHANGED viewer_vars

AskHasNext == Query("has_next", has_next) /\ UNCHANGED viewer_vars

AskHasPrevious == Query("has_previous", has_previous) /\ UNCHANGED viewer_vars

AskOriginalSize ==
    Query("get_original_size", get_original_size) /\ UNCHANGED viewer_vars

Next ==
    \/ Load
    \/ Validate
    \/ Render
    \/ Advance
    \/ Retreat
    \/ AskPath
    \/ AskInfo
    \/ AskHasImages
    \/ AskHasNext
    \/ AskHasPrevious
    \/ AskOriginalSize

Spec == Init /\ [][Next]_vars

----------------------------------------------------------------------------
(* ImageViewer.  A method of the viewer is a function from the state it    *)
(* finds to the state it leaves: the handler's fields, the widgets, the    *)
(* pending timers and _resize_after, with `rendered` noting whether        *)
(* load_current_image was called and what it returned.  An event handler   *)
(* runs to completion.  Time passes between handlers, and a timer whose    *)
(* delay has elapsed runs before any later input is handled.               *)

ResizeDelay == 250    \* root.after(250, self.update_display)
RetryDelay == 100     \* root.after(100, self.update_display)
Padding == 20         \* winfo_width() - 20

MaxTimers == 2        \* most timers pending at a time

TickMs == RetryDelay \div 2

(* Sizes of the mapped image frame: the display areas 2 x 2 and 15 x 2. *)
FrameSizes == { <<22, 22>>, <<35, 22>> }

(* What the current path holds when the viewer renders it: a file that    *)
(* does not decode, and an image that shrinks into the wide frame and      *)
(* whose scaled height in the small frame is below 1.                      *)
ViewFiles == { <<"undecodable", None>>, <<"image", <<22, 2>>>> }

(* What a selected file holds when the viewer validates it. *)
OpenKinds == { "unverifiable", "image" }

(* What askopenfilenames returns: no file, or distinct files in any order. *)
Selections == { b \in Batches : \A i, j \in 1..Len(b) : b[i] = b[j] => i = j }

(* The value of _resize_after once its timer has run: Tk never uses an     *)
(* identifier again, so it names no timer from then on.                    *)
Stale == -1

World ==
    [ images |-> images, current_index |-> current_index,
      current_image |-> current_image, original_image |-> original_image,
      widgets |-> widgets, timers |-> timers, resize_after |-> resize_after,
      rendered |-> "not_called" ]

(* The one element of a set of one element: `Only({ e(x) : x \in {v} })`   *)
(* computes v once, however often e uses x.                                *)
Only(S) == CHOOSE r \in S : TRUE

TimerIds(t1) == { t1.timers[i].id : i \in 1..Len(t1.timers) }

(* Tk never hands out an identifier twice: the new one differs from every  *)
(* pending one and from the one still stored in _resize_after.             *)
FreshId(t0) ==
    Only({ CHOOSE i \in 0..Cardinality(used) :
               i \notin used /\ \A j \in 0..(i - 1) : j \in used
           : used \in { TimerIds(t0) \cup (t0.resize_after \ {Stale}) } })

after(tk, ms, site) ==
    Only({ [t2 EXCEPT !.timers =
                Append(@, [id |-> FreshId(t2), left |-> ms, site |-> site])]
           : t2 \in {tk} })

after_cancel(tc, ids) ==
    LET Pending(t) == t.id \notin ids
    IN  [tc EXCEPT !.timers = SelectSeq(@, Pending)]

(* load_current_image as a function of the handler's fields. *)
load_current_image_in(hd, size, img) ==
    Only({ IF h.images = <<>> \/ h.current_index >= Len(h.images)
           THEN [h EXCEPT !.rendered = "none"]
           ELSE IF ~Image_open(img[1]) \/ ~Image_copy(img[1])
           THEN [h EXCEPT !.rendered = "none"]
           ELSE Only({ IF resized = None
                       THEN [h EXCEPT !.original_image = img[2],
                                      !.rendered = "none"]
                       ELSE [h EXCEPT !.original_image = img[2],
                                      !.current_image = resized,
                                      !.rendered = "bitmap"]
                       : resized \in { Scaled(img[2], size) } })
           : h \in {hd} })

(* get_current_image_info as a function of the handler's fields. *)
current_image_info(imgs, idx) ==
    IF imgs = <<>> THEN << <<>>, 0, 0 >>
    ELSE << basename(imgs[idx + 1]), Len(imgs), idx + 1 >>

update_status(st, message) == [st EXCEPT !.widgets.status_label = message]

(* What update_display does with the result of load_current_image. *)
show(loaded) ==
    Only({ IF got.rendered = "bitmap"
           THEN Only({ [got EXCEPT
                          !.widgets.image_label = Picture("", got.current_image),
                          !.widgets.info_label = Text("Current: ", info[1], 0, 0),
                          !.widgets.counter_label =
                              Text(" of ", <<>>, info[3], info[2]),
                          !.widgets.status_label =
                              Text(" pixels", info[1], got.original_image[1],
                                   got.original_image[2])]
                       : info \in { current_image_info(got.images,
                                                       got.current_index) } })
           ELSE [got EXCEPT
                   !.widgets.image_label = Picture("Error loading image", None),
                   !.widgets.status_label =
                       Text("Error loading current image", <<>>, 0, 0)]
           : got \in {loaded} })

(* update_display that asks for another try when the render fails. *)
update_display_retries(self, file) ==
    Only({ IF me.images = <<>>
           THEN [me EXCEPT
                   !.widgets.image_label = Picture("No image to display", None),
                   !.widgets.info_label = Text("No images loaded", <<>>, 0, 0),
                   !.widgets.counter_label = Text("", <<>>, 0, 0)]
           ELSE LET frame_width == frame[1] - Padding
                    frame_height == frame[2] - Padding
                IN  IF frame_width <= 1 \/ frame_height <= 1
                    THEN after(me, RetryDelay, "retry")
                    ELSE Only({ IF shown.rendered = "none"
                                THEN after(shown, RetryDelay, "retry")
                                ELSE shown
                                : shown \in { show(load_current_image_in(
                                      me, <<frame_width, frame_height>>, file)) } })
           : me \in {self} })

update_display(self, file) ==
    Only({ IF me.images = <<>>
           THEN [me EXCEPT
                   !.widgets.image_label = Picture("No image to display", None),
                   !.widgets.info_label = Text("No images loaded", <<>>, 0, 0),
                   !.widgets.counter_label = Text("", <<>>, 0, 0)]
           ELSE LET frame_width == frame[1] - Padding
                    frame_height == frame[2] - Padding
                IN  IF frame_width <= 1 \/ frame_height <= 1
                    THEN after(me, RetryDelay, "retry")
                    ELSE show(load_current_image_in(
                                  me, <<frame_width, frame_height>>, file))
           : me \in {self} })

(* update_navigation_buttons with the two buttons exchanged. *)
update_navigation_buttons_swapped(nav) ==
    Only({ IF v.images = <<>>
           THEN [v EXCEPT !.widgets.prev_button = "disabled",
                          !.widgets.next_button = "disabled"]
           ELSE [v EXCEPT
                   !.widgets.next_button =
                       IF v.current_index > 0 THEN "normal" ELSE "disabled",
                   !.widgets.prev_button =
                       IF v.current_index < Len(v.images) - 1
                       THEN "normal" ELSE "disabled"]
           : v \in {nav} })

update_navigation_buttons(nav) ==
    Only({ IF v.images = <<>>
           THEN [v EXCEPT !.widgets.prev_button = "disabled",
                          !.widgets.next_button = "disabled"]
           ELSE [v EXCEPT
                   !.widgets.prev_button =
                       IF v.current_index > 0 THEN "normal" ELSE "disabled",
                   !.widgets.next_button =
                       IF v.current_index < Len(v.images) - 1
                       THEN "normal" ELSE "disabled"]
           : v \in {nav} })

open_images(app, file_paths, fs, file) ==
    IF file_paths = <<>>
    THEN update_status(app, Text("No files selected", <<>>, 0, 0))
    ELSE Only({ IF valid # <<>>
                THEN update_navigation_buttons(
                         update_status(
                             update_display(
                                 [app EXCEPT !.images = valid, !.current_index = 0],
                                 file),
                             Text("Loaded images", <<>>, Len(file_paths), 0)))
                ELSE update_status(app, Text("Error loading images", <<>>, 0, 0))
                : valid \in { valid_images(fs, file_paths) } })

viewer_next_image(app, file) ==
    Only({ IF moved.ret
           THEN update_status(
                    update_navigation_buttons(
                        update_display(
                            [app EXCEPT !.current_index = moved.index], file)),
                    Text("Next image", <<>>, 0, 0))
           ELSE app
           : moved \in { advance(app.images, app.current_index) } })

viewer_previous_image(app, file) ==
    Only({ IF moved.ret
           THEN update_status(
                    update_navigation_buttons(
                        update_display(
                            [app EXCEPT !.current_index = moved.index], file)),
                    Text("Previous image", <<>>, 0, 0))
           ELSE app
           : moved \in { retreat(app.images, app.current_index) } })

(* on_frame_resize that schedules without cancelling. *)
on_frame_resize_keeps(app) ==
    Only({ IF a.images # <<>>
           THEN [after(a, ResizeDelay, "resize") EXCEPT !.resize_after = {FreshId(a)}]
           ELSE a
           : a \in {app} })

on_frame_resize(app) ==
    Only({ IF a.images # <<>>
           THEN Only({ [after(cancelled, ResizeDelay, "resize")
                           EXCEPT !.resize_after = {FreshId(cancelled)}]
                       : cancelled \in { after_cancel(a, a.resize_after) } })
           ELSE a
           : a \in {app} })

----------------------------------------------------------------------------
(* The event loop: the user's events, the timers and the passing of time. *)

Commit(out) ==
    /\ images' = out.images
    /\ current_index' = out.current_index
    /\ current_image' = out.current_image
    /\ original_image' = out.original_image
    /\ widgets' = out.widgets
    /\ timers' = out.timers
    /\ resize_after' = out.resize_after

(* No timer is due. *)
Idle == \A i \in 1..Len(timers) : timers[i].left > 0

(* The user has acted: what the handler rendered is the latest report. *)
UserActed(res) ==
    [history EXCEPT !.reported = (res.rendered = "none"),
                    !.old_timers = IF res.rendered = "none"
                                   THEN TimerIds(World) ELSE {}]

Open ==
    /\ Idle
    /\ \E paths \in Selections : \E kinds \in [Range(paths) -> OpenKinds] :
       \E shown \in ViewFiles :
       \E done \in { open_images(World, paths, kinds, shown) } :
          /\ Len(done.timers) < MaxTimers
          /\ Commit(done)
          /\ call' = Called("ImageViewer.open_images", None,
                            IF paths = <<>> THEN "cancelled"
                            ELSE IF valid_images(kinds, paths) # <<>> THEN "loaded"
                            ELSE "refused",
                            done.rendered)
          /\ history' = UserActed(done)
    /\ UNCHANGED frame

PressNext ==
    /\ Idle
    /\ \E shown \in ViewFiles : \E done \in { viewer_next_image(World, shown) } :
          /\ Len(done.timers) < MaxTimers
          /\ Commit(done)
          /\ call' = Called("ImageViewer.next_image", None,
                            IF advance(images, current_index).ret
                            THEN "moved" ELSE "stayed",
                            done.rendered)
          /\ history' = UserActed(done)
    /\ UNCHANGED frame

PressPrevious ==
    /\ Idle
    /\ \E shown \in ViewFiles : \E done \in { viewer_previous_image(World, shown) } :
          /\ Len(done.timers) < MaxTimers
          /\ Commit(done)
          /\ call' = Called("ImageViewer.previous_image", None,
                            IF retreat(images, current_index).ret
                            THEN "moved" ELSE "stayed",
                            done.rendered)
          /\ history' = UserActed(done)
    /\ UNCHANGED frame

(* The window manager gives the frame a size; <Configure> is delivered. *)
Configure ==
    /\ Idle
    /\ \E size \in FrameSizes : \E done \in { on_frame_resize(World) } :
          /\ Len(done.timers) <= MaxTimers
          /\ Commit(done)
          /\ frame' = size
          /\ call' = Called("ImageViewer.on_frame_resize", size,
                            IF images # <<>> THEN "scheduled" ELSE "ignored",
                            done.rendered)
          /\ history' = [quiet |-> 0,
                         burst |-> IF images = <<>> THEN 0
                                   ELSE IF history.burst = 0
                                           \/ history.quiet >= ResizeDelay
                                   THEN 1
                                   ELSE 2,
                         resize_renders |-> 0,
                         reported |-> FALSE, old_timers |-> {}]

(* The oldest due timer runs update_display. *)
TimerFire ==
    \E i \in 1..Len(timers) : \E shown \in ViewFiles :
        /\ timers[i].left = 0
        /\ \A j \in 1..(i - 1) : timers[j].left > 0
        /\ \E rest \in { [World EXCEPT
                            !.timers = SubSeq(timers, 1, i - 1)
                                           \o SubSeq(timers, i + 1, Len(timers)),
                            !.resize_after = IF timers[i].id \in @
                                             THEN {Stale} ELSE @] } :
           \E done \in { update_display(rest, shown) } :
              /\ Commit(done)
              /\ call' = Called("after", timers[i].id, timers[i].site,
                                done.rendered)
              /\ history' =
                   [history EXCEPT
                      !.resize_renders =
                          IF timers[i].site = "resize" /\ @ < 2 THEN @ + 1 ELSE @,
                      !.reported = IF done.rendered = "none" THEN TRUE
                                   ELSE IF done.rendered = "bitmap" THEN FALSE
                                   ELSE @,
                      !.old_timers =
                          IF done.rendered = "none" THEN TimerIds(rest)
                          ELSE IF done.rendered = "bitmap" THEN {}
                          ELSE @ \ {timers[i].id}]
              /\ UNCHANGED frame

(* Every pending timer is TickMs closer to its time. *)
RECURSIVE Elapse(_)
Elapse(ts) ==
    IF ts = <<>> THEN <<>>
    ELSE << [Head(ts) EXCEPT !.left = @ - TickMs] >> \o Elapse(Tail(ts))

Tick ==
    /\ Idle
    /\ timers' = Elapse(timers)
    /\ history' = [history EXCEPT
                     !.quiet = IF @ + TickMs < ResizeDelay THEN @ + TickMs
                               ELSE ResizeDelay]
    /\ UNCHANGED <<images, current_index, current_image, original_image, call,
                   widgets, resize_after, frame>>

ViewNext ==
    \/ Open
    \/ PressNext
    \/ PressPrevious
    \/ Configure
    \/ TimerFire
    \/ Tick

ViewSpec == Init /\ [][ViewNext]_vars

----------------------------------------------------------------------------
(* Properties *)

(* C1: whenever images is non-empty, 0 <= current_index < len(images),     *)
(* after any sequence of calls.                                            *)
CursorInRange ==
    images # <<>> => (0 <= current_index /\ current_index < Len(images))

(* C1 case: the cursor has advanced to the last image of a full set. *)
CursorAtLast ==
    /\ call.name = "next_image" /\ call.ret = TRUE
    /\ Len(images) = MaxBatch
    /\ current_index = Len(images) - 1

(* C2: a batch with at least one valid candidate is accepted: images is    *)
(* the valid candidates in their original order, duplicates kept, and the  *)
(* cursor is 0, whatever was loaded before.                                *)
LoadKeepsValidInOrder ==
    (call.name = "load_images" /\ call.env # {}) =>
        LET IsValid(p) == p \in call.env
        IN  /\ call.ret = TRUE
            /\ images = SelectSeq(call.arg, IsValid)
            /\ current_index = 0

(* C2 case: a batch of which one candidate was dropped and one kept. *)
LoadDroppedOne ==
    /\ call.name = "load_images" /\ call.ret = TRUE
    /\ Len(images) >= 1
    /\ Len(images) < Len(call.arg)

(* C3: a batch without a valid candidate (the empty batch too) is refused  *)
(* and leaves images and current_index as they were.                       *)
EmptyLoadChangesNothing ==
    [][ (call'.name = "load_images" /\ call'.env = {}) =>
            /\ call'.ret = FALSE
            /\ images' = images
            /\ current_index' = current_index ]_vars

(* C3 case: a non-empty batch refused while the cursor is inside a set. *)
LoadRefusedMidSet ==
    /\ call.name = "load_images" /\ call.ret = FALSE
    /\ call.arg # <<>>
    /\ current_index > 0

(* C4: next_image moves the cursor up by one and returns true iff it was   *)
(* below len(images) - 1; previous_image moves it down by one and returns  *)
(* true iff it was above 0; otherwise false and the cursor stays.          *)
NavigationMovesByOne ==
    [][ /\ call'.name = "next_image" =>
            /\ call'.ret = (current_index < Len(images) - 1)
            /\ current_index' =
                 IF call'.ret THEN current_index + 1 ELSE current_index
        /\ call'.name = "previous_image" =>
            /\ call'.ret = (current_index > 0)
            /\ current_index' =
                 IF call'.ret THEN current_index - 1 ELSE current_index ]_vars

(* C4 case: next_image refused at the last image of a set of several. *)
AdvanceRefusedAtEnd ==
    /\ call.name = "next_image" /\ call.ret = FALSE
    /\ Len(images) > 1
    /\ current_index = Len(images) - 1

(* C5: has_next() is current_index < len(images) - 1 and has_previous()    *)
(* is current_index > 0 in every state, and each is what the next          *)
(* next_image() / previous_image() returns.                                *)
QueriesPredictMoves ==
    /\ [](call.name = "has_next" =>
            call.ret = (current_index < Len(images) - 1))
    /\ [](call.name = "has_previous" => call.ret = (current_index > 0))
    /\ [][ /\ call'.name = "next_image" => call'.ret = has_next
           /\ call'.name = "previous_image" => call'.ret = has_previous ]_vars

(* C5 case: has_next() asked on a set of one image. *)
SingleImageHasNoNext ==
    /\ call.name = "has_next" /\ call.ret = FALSE
    /\ Len(images) = 1

(* C6: get_current_image_info() is ("", 0, 0) without images; otherwise    *)
(* the part of the current path after its last "/", len(images) and        *)
(* current_index + 1, with 1 <= position <= total.                         *)
InfoNamesCurrentImage ==
    call.name = "get_current_image_info" =>
        IF images = <<>> THEN call.ret = << <<>>, 0, 0 >>
        ELSE LET path == images[current_index + 1]
                 name == call.ret[1]
                 from == Len(path) - Len(name)
             IN  /\ from >= 0
                 /\ name = SubSeq(path, from + 1, Len(path))
                 /\ \A i \in 1..Len(name) : name[i] # "/"
                 /\ from > 0 => path[from] = "/"
                 /\ call.ret[2] = Len(images)
                 /\ call.ret[3] = current_index + 1
                 /\ 1 <= call.ret[3] /\ call.ret[3] <= call.ret[2]

(* C6 case: the info of a second image that lies in a directory. *)
InfoOfNestedPath ==
    /\ call.name = "get_current_image_info"
    /\ current_index = 1
    /\ Len(call.ret[1]) < Len(images[current_index + 1])

(* C7: for an image of size (W, H) that decodes and a target (w, h), with  *)
(* ratio = min(w/W, h/H): load_current_image returns a bitmap of size      *)
(* (floor(W*ratio), floor(H*ratio)) if ratio < 1 and of size (W, H)        *)
(* otherwise.  The ratio and the products are the exact ones.              *)
RenderSizeIsFlooredRatio ==
    (call.name = "load_current_image" /\ call.env # None
        /\ call.env[1] = "image") =>
        LET W == call.env[2][1]
            H == call.env[2][2]
            w == call.arg[1]
            h == call.arg[2]
        IN  call.ret =
              IF w >= W /\ h >= H THEN <<W, H>>
              ELSE IF w * H <= h * W THEN <<w, (H * w) \div W>>
              ELSE <<(W * h) \div H, h>>

(* C8: load_current_image returns None only if decoding fails: with a      *)
(* current path that decodes, it returns a bitmap.                         *)
RenderFailsOnlyOnDecode ==
    (call.name = "load_current_image" /\ call.env # None
        /\ call.env[1] = "image") => call.ret # None

(* C9: whenever load_current_image returns None, get_original_size()       *)
(* returns after the call what it returned before.                         *)
FailedRenderKeepsOriginalSize ==
    [][ (call'.name = "load_current_image" /\ call'.ret = None) =>
            get_original_size' = get_original_size ]_vars

(* C10: images changes only through a load_images that returns true; and   *)
(* load_current_image and the queries leave current_index as it was.       *)
OnlyLoadChangesImages ==
    [][ /\ images' # images =>
            (call'.name = "load_images" /\ call'.ret = TRUE)
        /\ call'.name \notin { "load_images", "next_image", "previous_image" } =>
            current_index' = current_index ]_vars

(* C10 case: a render that failed on the file, with the cursor inside. *)
RenderFailedMidSet ==
    /\ call.name = "load_current_image" /\ call.ret = None
    /\ call.env # None /\ call.env[1] # "image"
    /\ current_index > 0

(* C11: is_valid_image returns True only for a path that exists, opens    *)
(* and verifies; a missing path, a failing verify() and any exception give *)
(* False, nothing is raised, and a batch with a bad candidate still loads  *)
(* its valid ones.                                                         *)
ValidateFailsClosed ==
    /\ call.name = "is_valid_image" =>
        /\ call.ret \in BOOLEAN
        /\ call.ret = TRUE =>
             (os_path_exists(call.env) /\ Image_open(call.env)
                 /\ Image_verify(call.env))
        /\ call.env \in { "missing", "unopenable", "unverifiable" } =>
             call.ret = FALSE
    /\ (call.name = "load_images" /\ call.env # {}) =>
        (call.ret = TRUE /\ call.env = Range(images))

(* C11 case: a file that opens but does not verify was refused. *)
UnverifiableRefused ==
    /\ call.name = "is_valid_image"
    /\ call.env = "unverifiable"
    /\ call.ret = FALSE

(* C17: after a next_image() that returned true, an immediately following  *)
(* previous_image() returns true and puts the cursor back, and the other   *)
(* way round; images is the same before and after.                         *)
MovesAreInverse ==
    /\ [](advance(images, current_index).ret =>
            retreat(images, advance(images, current_index).index)
                = [ret |-> TRUE, index |-> current_index])
    /\ [](retreat(images, current_index).ret =>
            advance(images, retreat(images, current_index).index)
                = [ret |-> TRUE, index |-> current_index])
    /\ [][ /\ (call.name = "next_image" /\ call.ret = TRUE
                /\ call'.name = "previous_image") =>
                  /\ call'.ret = TRUE
                  /\ current_index' = current_index - 1
                  /\ images' = images
           /\ (call.name = "previous_image" /\ call.ret = TRUE
                /\ call'.name = "next_image") =>
                  /\ call'.ret = TRUE
                  /\ current_index' = current_index + 1
                  /\ images' = images ]_vars

(* C17 case: previous_image() has just undone a next_image(). *)
RetreatAfterAdvance ==
    /\ call.name = "previous_image" /\ call.ret = TRUE
    /\ current_index = 0
    /\ Len(images) > 1

----------------------------------------------------------------------------
(* Properties of the viewer (ViewSpec) *)

UserActions ==
    { "ImageViewer.open_images", "ImageViewer.next_image",
      "ImageViewer.previous_image" }

ResizeTimers == { i \in 1..Len(timers) : timers[i].site = "resize" }

(* C12: resize events less than 250 ms apart, with images loaded, lead to  *)
(* exactly one debounced update_display, and only once 250 ms have passed  *)
(* since the last of them; never is more than one debounced render         *)
(* pending.                                                                *)
ResizeBurstRendersOnce ==
    /\ [](Cardinality(ResizeTimers) <= 1)
    /\ [](\A i \in ResizeTimers : timers[i].left = ResizeDelay - history.quiet)
    /\ [](history.burst > 0 =>
            history.resize_renders + Cardinality(ResizeTimers) = 1)
    /\ [][(~Idle /\ call'.name = "after" /\ call'.env = "resize") =>
            /\ history.quiet = ResizeDelay
            /\ call'.ret \in { "none", "bitmap" }
            /\ history'.resize_renders = 1]_vars

(* C12 case: a burst of several resize events has had its one render. *)
BurstRenderedOnce ==
    /\ call.name = "after" /\ call.env = "resize"
    /\ history.burst = 2
    /\ history.resize_renders = 1

(* C13: once update_display has received None, load_current_image is not   *)
(* called again until the user opens, moves or resizes.                    *)
NoRenderUntilUserActs ==
    [][(history.reported /\ ~Idle) => call'.ret = "not_called"]_vars

(* C13 as amended: a render that returns None schedules nothing, so until  *)
(* the user opens, moves or resizes, load_current_image is called again    *)
(* only by a timer that was already pending when None was returned.        *)
FailedRenderSchedulesNothing ==
    /\ [](history.reported => TimerIds(World) \subseteq history.old_timers)
    /\ [][(history.reported /\ ~Idle /\ call'.ret # "not_called") =>
            (call'.name = "after" /\ call'.arg \in history.old_timers)]_vars

(* C13 case: a move has rendered None while a debounced render was pending. *)
FailureWithTimerPending ==
    /\ call.name = "ImageViewer.next_image" /\ call.ret = "none"
    /\ history.reported
    /\ history.old_timers # {}
    /\ timers # <<>>

(* C14: after open, next or previous the counter reads "position of total" *)
(* and the info label names the current file, as get_current_image_info    *)
(* gives them, also when the render of the current image fails.            *)
LabelsShowCurrentInfo ==
    (call.name \in UserActions /\ images # <<>>) =>
        /\ widgets.counter_label =
              Text(" of ", <<>>, get_current_image_info[3], get_current_image_info[2])
        /\ widgets.info_label = Text("Current: ", get_current_image_info[1], 0, 0)

(* C15: after open (accepted or refused), next and previous, the Previous  *)
(* button is enabled iff has_previous() and the Next button iff            *)
(* has_next(); both are disabled while no images are loaded.               *)
ButtonsFollowCursor ==
    /\ (widgets.prev_button = "normal") = has_previous
    /\ (widgets.next_button = "normal") = has_next
    /\ images = <<>> =>
          (widgets.prev_button = "disabled" /\ widgets.next_button = "disabled")

(* C15 case: an open was refused while the cursor stood on the last image. *)
RefusedOpenAtLast ==
    /\ call.name = "ImageViewer.open_images" /\ call.env = "refused"
    /\ Len(images) > 1 /\ current_index = Len(images) - 1
    /\ widgets.prev_button = "normal"
    /\ widgets.next_button = "disabled"

(* C16: after an accepted open, the N of the status "Loaded N images" is   *)
(* the number of images held, also when candidates were dropped.           *)
LoadedCountIsSetSize ==
    (call.name = "ImageViewer.open_images" /\ call.env = "loaded") =>
        widgets.status_label = Text("Loaded images", <<>>, Len(images), 0)

====
